---------------------------- MODULE Spec2Model ----------------------------
(***************************************************************************)
(* Model of AuthenticationService                                          *)
(* (crates/matrix-sdk/src/authentication/service.rs).                      *)
(*                                                                         *)
(* The service stores a client and the homeserver's login details behind   *)
(* two separate RwLocks.  configure_homeserver is an async fn that may be  *)
(* driven from several threads against the same service; each thread is    *)
(* modelled as a process whose position (pc) moves through the awaits and  *)
(* the two lock-protected writes of the call.  The transport collaborators *)
(* (client builder, server_versions, get_login_types) answer               *)
(* nondeterministically.  The build modelled is the one with the           *)
(* experimental-sliding-sync feature: without it the proxy check of lines  *)
(* 124-129 is compiled out, which is how the service behaves here whenever *)
(* custom_sliding_sync_proxy is set.                                       *)
(***************************************************************************)
EXTENDS Naturals, Sequences, FiniteSets

VARIABLES
    custom_sliding_sync_proxy,  \* AuthenticationService.custom_sliding_sync_proxy
    client,                     \* AuthenticationService.client
    homeserver_details,         \* AuthenticationService.homeserver_details
    pc,                         \* position of each thread in configure_homeserver
    input,                      \* server_name_or_homeserver_url of the running call
    sanitize_result,            \* build_client: sanitize_result
    build_error,                \* build_client: build_error
    cl,                         \* the client built by the running call
    det,                        \* the details built by the running call
    result,                     \* what the thread's last call returned
    \* History variables: they record what happened and guard no step.
    ncalls,                     \* number of calls started so far
    call_id,                    \* number of the thread's running (or last) call
    arg,                        \* argument of the thread's running (or last) call
    overlap,                    \* the latest call started while another call was running
    disc,                       \* how server-name discovery ended in that call
    built,                      \* the client that call built
    fetched,                    \* the login flows fetched by the running call
    ret_from,                   \* the position that call returned from
    succeeded,                  \* some call has returned Ok
    client_by,                  \* the call that wrote the stored client
    details_by,                 \* the call that wrote the stored details
    \* IteratorSerializeAsArray and the serializer it is handed to.
    cell,                       \* IteratorSerializeAsArray.0: the wrapped iterator
    iterator,                   \* serialize: the iterator taken out of the cell
    seq,                        \* what the serializer has written in this call
    spc,                        \* position of the running serialize call
    sresult,                    \* how the last serialize call ended
    \* History variables of the serializer.
    wrapped,                    \* the elements the instance was built with
    written,                    \* result and output of every call that ended
    nser                        \* number of serialize calls started so far

config == <<custom_sliding_sync_proxy>>
store == <<client, homeserver_details>>
locals == <<input, sanitize_result, build_error, cl, det>>
writers == <<client_by, details_by>>
callinfo == <<ncalls, call_id, arg, overlap>>
returns == <<result, ret_from, succeeded>>
service == <<config, store, pc, locals, writers, callinfo, disc, built, fetched,
             returns>>
serializer == <<cell, iterator, seq, spc, sresult, wrapped, written, nser>>
vars == <<service, serializer>>

----------------------------------------------------------------------------
(* Bounds of the model. *)

\* Total number of configure_homeserver calls started in one behaviour.
MaxCalls == 2

\* Threads sharing the service.
Threads == {"t1", "t2"}

----------------------------------------------------------------------------
(* Option<T> *)

None == [some |-> FALSE]
Some(v) == [some |-> TRUE, val |-> v]

----------------------------------------------------------------------------
(* Input strings.  A string is a sequence of tokens: an optional scheme      *)
(* prefix, a host, and an optional tail.                                    *)

HttpPrefix == "http://"
HttpsPrefix == "https://"
Schemes == {HttpPrefix, HttpsPrefix}
ValidHosts == {"matrix.org", "localhost"}

Inputs ==
    { <<"matrix.org">>,                        \* server name only
      <<HttpPrefix, "localhost">>,             \* server name and URL
      <<HttpsPrefix, "matrix.org", "/path">>,  \* URL only
      <<"not a name">> }                       \* neither

RECURSIVE TrimStartMatches(_, _)
TrimStartMatches(s, tok) ==
    IF s # <<>> /\ Head(s) = tok THEN TrimStartMatches(Tail(s), tok) ELSE s

RECURSIVE TrimEndMatches(_, _)
TrimEndMatches(s, tok) ==
    IF s # <<>> /\ s[Len(s)] = tok
    THEN TrimEndMatches(SubSeq(s, 1, Len(s) - 1), tok)
    ELSE s

\* ServerName::parse on what is left of the string.
ServerNameParse(s) ==
    IF Len(s) = 1 /\ s[1] \in ValidHosts
    THEN [ok |-> TRUE, val |-> s[1]]
    ELSE [ok |-> FALSE, val |-> "IdParseError"]

\* sanitize_server_name: strip the scheme prefixes and trailing slashes, then
\* parse the rest as a server name.
sanitize_server_name(s) ==
    ServerNameParse(
        TrimEndMatches(
            TrimStartMatches(TrimStartMatches(s, HttpPrefix), HttpsPrefix), "/"))

\* Url::parse: a scheme and a valid host are required; an empty path is
\* normalised to "/".
UrlParse(s) ==
    IF Len(s) >= 2 /\ s[1] \in Schemes /\ s[2] \in ValidHosts
    THEN [ok |-> TRUE,
          val |-> [scheme |-> s[1], host |-> s[2],
                   path |-> IF Len(s) >= 3 THEN s[3] ELSE "/"]]
    ELSE [ok |-> FALSE, val |-> "ParseError"]

----------------------------------------------------------------------------
(* AuthenticationError *)

Err(kind, cause) == [kind |-> kind, cause |-> cause]

UnknownError == Err("Generic", "Unknown error occurred.")
SlidingSyncNotAvailable == Err("SlidingSyncNotAvailable", "")

Ok == [tag |-> "Ok", err |-> Err("", "")]
Failed(e) == [tag |-> "Err", err |-> e]
NoResult == [tag |-> "None", err |-> Err("", "")]

----------------------------------------------------------------------------
(* Collaborators: what the transport can answer. *)

\* ClientBuildError, by the shapes build_client tells apart.
ClientBuildErrors ==
    {"Http(Reqwest)", "AutoDiscovery(Deserialization)", "AutoDiscovery(Other)",
     "Other"}

\* Homeserver URLs a well-known file can name.
WellKnownUrls ==
    { [scheme |-> HttpsPrefix, host |-> "hs.matrix.org", path |-> "/"] }

Proxies == {None, Some("https://proxy")}

\* A built client, as far as the service inspects it.
MkClient(url, proxy, oidc) ==
    [homeserver |-> url, sliding_sync_proxy |-> proxy, oidc |-> oidc]

DiscoveredClients ==
    { MkClient(u, x, o) : u \in WellKnownUrls, x \in Proxies, o \in {FALSE} }

\* A client built for a homeserver URL reads no well-known file.
UrlClient(url) == MkClient(url, None, FALSE)

FlowLists == { <<>>, <<"Password">>, <<"Sso">>, <<"Sso", "Password">> }

----------------------------------------------------------------------------
(* Pure parts of the service. *)

\* Faulty variant: every auto-discovery failure counts as a missing homeserver.
MapBuildError_NoWellKnownCase(e) ==
    CASE e = "Http(Reqwest)" -> Err("ServerNotFound", "")
      [] e \in {"AutoDiscovery(Deserialization)", "AutoDiscovery(Other)"} ->
             Err("HomeserverNotFound", "")
      [] OTHER -> Err("Generic", e)

\* build_client, lines 154-165: the error kept from server-name discovery.
MapBuildError(e) ==
    CASE e = "Http(Reqwest)" -> Err("ServerNotFound", "")
      [] e = "AutoDiscovery(Deserialization)" ->
             Err("InvalidWellKnownFile", "DeserializationError")
      [] e = "AutoDiscovery(Other)" -> Err("HomeserverNotFound", "")
      [] OTHER -> Err("Generic", e)

\* Faulty variant: after a valid server name the initial error is returned.
BuildClientError_ReturnsFallback(sr, be) ==
    IF ~sr.ok THEN Err("InvalidServerName", sr.val) ELSE UnknownError

\* Faulty variant: the failed server-name parse is not looked at.
BuildClientError_IgnoresParse(sr, be) == be

\* build_client, lines 181-185: the error returned when no client was built.
BuildClientError(sr, be) ==
    IF ~sr.ok THEN Err("InvalidServerName", sr.val) ELSE be

\* Faulty variant: only the first login flow is inspected.
SupportsPasswordLogin_FirstOnly(flows) ==
    flows # <<>> /\ flows[1] = "Password"

\* details_from_client, lines 246-249.
SupportsPasswordLogin(flows) ==
    \E i \in 1..Len(flows) : flows[i] = "Password"

\* Faulty variant: the URL is put together from the default scheme and port of
\* the homeserver's host instead of being taken from the client as it is.
DetailsFromClient_RebuildsUrl(c, flows) ==
    [url |-> [scheme |-> HttpsPrefix, host |-> c.homeserver.host, path |-> ""],
     supports_oidc_login |-> c.oidc,
     supports_password_login |-> SupportsPasswordLogin(flows)]

\* details_from_client, lines 250-257.
DetailsFromClient(c, flows) ==
    [url |-> c.homeserver,
     supports_oidc_login |-> c.oidc,
     supports_password_login |-> SupportsPasswordLogin(flows)]

\* Faulty variant: the operator's override is not consulted.
SlidingSyncMissing_IgnoresOverride(custom, c) == ~c.sliding_sync_proxy.some

\* configure_homeserver, lines 124-129: TRUE when the call must fail.
SlidingSyncMissing(custom, c) ==
    ~custom.some /\ ~c.sliding_sync_proxy.some

----------------------------------------------------------------------------
(* Initial state: AuthenticationService::new. *)

ServiceInit ==
    /\ custom_sliding_sync_proxy \in Proxies
    /\ client = None
    /\ homeserver_details = None
    /\ pc = [t \in Threads |-> "idle"]
    /\ input = [t \in Threads |-> <<>>]
    /\ sanitize_result = [t \in Threads |-> None]
    /\ build_error = [t \in Threads |-> None]
    /\ cl = [t \in Threads |-> None]
    /\ det = [t \in Threads |-> None]
    /\ result = [t \in Threads |-> NoResult]
    /\ ncalls = 0
    /\ call_id = [t \in Threads |-> 0]
    /\ arg = [t \in Threads |-> <<>>]
    /\ overlap = FALSE
    /\ disc = [t \in Threads |-> "none"]
    /\ built = [t \in Threads |-> None]
    /\ fetched = [t \in Threads |-> <<>>]
    /\ ret_from = [t \in Threads |-> "none"]
    /\ succeeded = FALSE
    /\ client_by = 0
    /\ details_by = 0

\* IteratorSerializeAsArray::new (lines 41-43): the iterator is put in the cell.
SerializerNew(items) ==
    /\ cell = Some(items)
    /\ iterator = <<>>
    /\ seq = <<>>
    /\ spc = "idle"
    /\ sresult = "none"
    /\ wrapped = items
    /\ written = <<>>
    /\ nser = 0

\* The service, beside a wrapper of an empty iterator that is never serialized.
Init == ServiceInit /\ SerializerNew(<<>>)

----------------------------------------------------------------------------
(* Steps of configure_homeserver. *)

Running(t) == pc[t] \notin {"idle", "done"}

\* The call returns `r`: every local of the call is dropped.
Return(t, r) ==
    /\ pc' = [pc EXCEPT ![t] = "done"]
    /\ result' = [result EXCEPT ![t] = r]
    /\ input' = [input EXCEPT ![t] = <<>>]
    /\ sanitize_result' = [sanitize_result EXCEPT ![t] = None]
    /\ build_error' = [build_error EXCEPT ![t] = None]
    /\ cl' = [cl EXCEPT ![t] = None]
    /\ det' = [det EXCEPT ![t] = None]
    /\ fetched' = [fetched EXCEPT ![t] = <<>>]
    /\ ret_from' = [ret_from EXCEPT ![t] = pc[t]]
    /\ succeeded' = (succeeded \/ r = Ok)

\* build_client returns the client: its locals are dropped (lines 152, 174).
BuildClientReturns(t) ==
    /\ input' = [input EXCEPT ![t] = <<>>]
    /\ sanitize_result' = [sanitize_result EXCEPT ![t] = None]
    /\ build_error' = [build_error EXCEPT ![t] = None]
    /\ pc' = [pc EXCEPT ![t] = "login_types"]

\* Lines 115-150: the call starts; build_client sets the fallback error and
\* sanitizes the input.
ConfigureHomeserver(t, s) ==
    /\ ~Running(t)
    /\ ncalls < MaxCalls
    /\ ncalls' = ncalls + 1
    /\ call_id' = [call_id EXCEPT ![t] = ncalls + 1]
    /\ arg' = [arg EXCEPT ![t] = s]
    /\ overlap' = (\E u \in Threads \ {t} : Running(u))
    /\ input' = [input EXCEPT ![t] = s]
    /\ build_error' = [build_error EXCEPT ![t] = Some(UnknownError)]
    /\ sanitize_result' = [sanitize_result EXCEPT ![t] = sanitize_server_name(s)]
    /\ pc' = [pc EXCEPT ![t] =
                IF sanitize_server_name(s).ok THEN "server_name" ELSE "url"]
    /\ result' = [result EXCEPT ![t] = NoResult]
    /\ ret_from' = [ret_from EXCEPT ![t] = "none"]
    /\ disc' = [disc EXCEPT ![t] = "none"]
    /\ built' = [built EXCEPT ![t] = None]
    /\ fetched' = [fetched EXCEPT ![t] = <<>>]
    /\ UNCHANGED <<serializer, config, store, writers, cl, det, succeeded>>

\* Faulty variant: after a successful discovery the input is tried as a URL
\* all the same.
ServerNameOk_TriesUrlToo(t, c) ==
    /\ pc[t] = "server_name"
    /\ cl' = [cl EXCEPT ![t] = Some(c)]
    /\ pc' = [pc EXCEPT ![t] = "url"]
    /\ disc' = [disc EXCEPT ![t] = "ok"]
    /\ built' = [built EXCEPT ![t] = Some(c)]
    /\ UNCHANGED <<serializer, config, store, writers, callinfo, fetched, det,
                   returns, input, sanitize_result, build_error>>

\* Lines 151-152: build_client_for_server_name succeeds; build_client returns
\* the client and details_from_client starts.
ServerNameOk(t, c) ==
    /\ pc[t] = "server_name"
    /\ cl' = [cl EXCEPT ![t] = Some(c)]
    /\ BuildClientReturns(t)
    /\ disc' = [disc EXCEPT ![t] = "ok"]
    /\ built' = [built EXCEPT ![t] = Some(c)]
    /\ UNCHANGED fetched
    /\ UNCHANGED <<serializer, config, store, writers, callinfo, det, returns>>

\* Faulty variant: the discovery failure is not kept, the fallback error stays.
ServerNameErr_KeepsFallback(t, e) ==
    /\ pc[t] = "server_name"
    /\ pc' = [pc EXCEPT ![t] = "url"]
    /\ disc' = [disc EXCEPT ![t] = e]
    /\ UNCHANGED <<serializer, config, store, writers, callinfo, built, fetched, returns, locals>>

\* Lines 153-167: build_client_for_server_name fails; the mapped error is kept.
ServerNameErr(t, e) ==
    /\ pc[t] = "server_name"
    /\ build_error' = [build_error EXCEPT ![t] = Some(MapBuildError(e))]
    /\ pc' = [pc EXCEPT ![t] = "url"]
    /\ disc' = [disc EXCEPT ![t] = e]
    /\ UNCHANGED <<serializer, config, store, writers, callinfo, built, fetched, returns,
                   input, sanitize_result, cl, det>>

\* build_client found no client: lines 181-185, and the `?` of line 119.
BuildClientFails(t) ==
    /\ Return(t, Failed(BuildClientError(sanitize_result[t], build_error[t].val)))
    /\ UNCHANGED <<serializer, config, store, writers, callinfo, disc, built>>

\* Line 172: the input is tried as a homeserver URL.
UrlStrategy(t) ==
    /\ pc[t] = "url"
    /\ IF UrlParse(input[t]).ok
       THEN /\ pc' = [pc EXCEPT ![t] = "url_build"]
            /\ UNCHANGED <<serializer, config, store, writers, callinfo, disc, built, fetched,
                           returns, locals>>
       ELSE BuildClientFails(t)

\* Faulty variant: the client is built for the https URL of the host, whatever
\* scheme and path were supplied.
UrlBuildOk_ForcesHttps(t) ==
    /\ pc[t] = "url_build"
    /\ cl' = [cl EXCEPT ![t] =
                Some(UrlClient([scheme |-> HttpsPrefix,
                                host |-> UrlParse(input[t]).val.host,
                                path |-> "/"]))]
    /\ pc' = [pc EXCEPT ![t] = "server_versions"]
    /\ UNCHANGED <<serializer, config, store, writers, callinfo, disc, built, fetched, returns,
                   input, sanitize_result, build_error, det>>

\* Lines 221-224: the builder builds a client for the URL.
UrlBuildOk(t) ==
    /\ pc[t] = "url_build"
    /\ cl' = [cl EXCEPT ![t] = Some(UrlClient(UrlParse(input[t]).val))]
    /\ pc' = [pc EXCEPT ![t] = "server_versions"]
    /\ UNCHANGED <<serializer, config, store, writers, callinfo, disc, built, fetched, returns,
                   input, sanitize_result, build_error, det>>

\* Line 224: the builder fails; `.ok()?` yields None.
UrlBuildErr(t) ==
    /\ pc[t] = "url_build"
    /\ BuildClientFails(t)

\* Lines 228-229, 173-174: the server answers; build_client returns the client
\* and details_from_client starts.
ServerVersionsOk(t) ==
    /\ pc[t] = "server_versions"
    /\ BuildClientReturns(t)
    /\ built' = [built EXCEPT ![t] = cl[t]]
    /\ UNCHANGED fetched
    /\ UNCHANGED <<serializer, config, store, writers, callinfo, disc, returns, cl, det>>

\* Line 230: no homeserver answers at the URL.
ServerVersionsErr(t) ==
    /\ pc[t] = "server_versions"
    /\ BuildClientFails(t)

\* Faulty variant: the details are stored as soon as they are built.
LoginTypesOk_StoresEarly(t, flows) ==
    /\ pc[t] = "login_types"
    /\ det' = [det EXCEPT ![t] = Some(DetailsFromClient(cl[t].val, flows))]
    /\ homeserver_details' = Some(DetailsFromClient(cl[t].val, flows))
    /\ details_by' = call_id[t]
    /\ pc' = [pc EXCEPT ![t] = "gate"]
    /\ fetched' = [fetched EXCEPT ![t] = flows]
    /\ UNCHANGED <<serializer, config, client, client_by, callinfo, disc, built, returns,
                   input, sanitize_result, build_error, cl>>

\* Lines 241-257: the login types arrive and the details are built.
LoginTypesOk(t, flows) ==
    /\ pc[t] = "login_types"
    /\ det' = [det EXCEPT ![t] = Some(DetailsFromClient(cl[t].val, flows))]
    /\ pc' = [pc EXCEPT ![t] = "gate"]
    /\ fetched' = [fetched EXCEPT ![t] = flows]
    /\ UNCHANGED <<serializer, config, store, writers, callinfo, disc, built, returns,
                   input, sanitize_result, build_error, cl>>

\* Faulty variant: the sliding sync proxy is checked before the result of the
\* login-flow fetch is looked at.
LoginTypesErr_GateFirst(t) ==
    /\ pc[t] = "login_types"
    /\ Return(t, Failed(IF SlidingSyncMissing(custom_sliding_sync_proxy, cl[t].val)
                        THEN SlidingSyncNotAvailable
                        ELSE Err("Generic", "get_login_types")))
    /\ UNCHANGED <<serializer, config, store, writers, callinfo, disc, built>>

\* Faulty variant: the failed fetch is reported as a missing homeserver.
LoginTypesErr_HomeserverNotFound(t) ==
    /\ pc[t] = "login_types"
    /\ Return(t, Failed(Err("HomeserverNotFound", "")))
    /\ UNCHANGED <<serializer, config, store, writers, callinfo, disc, built>>

\* Line 245 and the `?` of line 120.
LoginTypesErr(t) ==
    /\ pc[t] = "login_types"
    /\ Return(t, Failed(Err("Generic", "get_login_types")))
    /\ UNCHANGED <<serializer, config, store, writers, callinfo, disc, built>>

\* Faulty variant: the client is stored before the sliding sync proxy check.
ProxyGate_StoresClientFirst(t) ==
    /\ pc[t] = "gate"
    /\ client' = cl[t]
    /\ client_by' = call_id[t]
    /\ IF SlidingSyncMissing(custom_sliding_sync_proxy, cl[t].val)
       THEN /\ Return(t, Failed(SlidingSyncNotAvailable))
            /\ UNCHANGED <<serializer, config, homeserver_details, details_by, callinfo,
                           disc, built>>
       ELSE /\ pc' = [pc EXCEPT ![t] = "write_client"]
            /\ UNCHANGED <<serializer, config, homeserver_details, details_by, callinfo,
                           disc, built, fetched, returns, locals>>

\* Lines 124-129: the sliding sync proxy check.
ProxyGate(t) ==
    /\ pc[t] = "gate"
    /\ IF SlidingSyncMissing(custom_sliding_sync_proxy, cl[t].val)
       THEN /\ Return(t, Failed(SlidingSyncNotAvailable))
            /\ UNCHANGED <<serializer, config, store, writers, callinfo, disc, built>>
       ELSE /\ pc' = [pc EXCEPT ![t] = "write_client"]
            /\ UNCHANGED <<serializer, config, store, writers, callinfo, disc, built, fetched,
                           returns, locals>>

\* Faulty variant: the details are stored first, the client is not.
WriteClient_WritesDetailsFirst(t) ==
    /\ pc[t] = "write_client"
    /\ homeserver_details' = det[t]
    /\ details_by' = call_id[t]
    /\ pc' = [pc EXCEPT ![t] = "write_details"]
    /\ UNCHANGED <<serializer, config, client, client_by, callinfo, disc, built,
                   fetched, returns, locals>>

\* Line 131: the client is moved into its lock.
WriteClient(t) ==
    /\ pc[t] = "write_client"
    /\ client' = cl[t]
    /\ client_by' = call_id[t]
    /\ cl' = [cl EXCEPT ![t] = None]
    /\ pc' = [pc EXCEPT ![t] = "write_details"]
    /\ UNCHANGED <<serializer, config, homeserver_details, details_by, callinfo, disc,
                   built, fetched, returns, input, sanitize_result, build_error, det>>

\* Lines 109-111: the read accessor clones the stored details.
HomeserverDetails == homeserver_details

\* Faulty variant: stored details are updated in place, keeping the password
\* flag of an earlier configuration.
WriteDetails_Merges(t) ==
    /\ pc[t] = "write_details"
    /\ homeserver_details' =
          IF homeserver_details = None THEN det[t]
          ELSE Some([det[t].val EXCEPT !.supports_password_login =
                        @ \/ homeserver_details.val.supports_password_login])
    /\ details_by' = call_id[t]
    /\ Return(t, Ok)
    /\ UNCHANGED <<serializer, config, client, client_by, callinfo, disc, built>>

\* Lines 132-134: the details are moved into their lock and the call returns.
WriteDetails(t) ==
    /\ pc[t] = "write_details"
    /\ homeserver_details' = det[t]
    /\ details_by' = call_id[t]
    /\ Return(t, Ok)
    /\ UNCHANGED <<serializer, config, client, client_by, callinfo, disc, built>>

\* The caller drops the future at one of its awaits.
SuspensionPoints == {"server_name", "url_build", "server_versions", "login_types"}

Cancelled == [tag |-> "Cancelled", err |-> Err("", "")]

\* Faulty variant: the call can also be dropped between the two writes.
Cancel_BetweenWrites(t) ==
    /\ pc[t] \in SuspensionPoints \cup {"write_details"}
    /\ Return(t, Cancelled)
    /\ UNCHANGED <<serializer, config, store, writers, callinfo, disc, built>>

\* Lines 119, 120: the future is dropped while it waits at an await.
Cancel(t) ==
    /\ pc[t] \in SuspensionPoints
    /\ Return(t, Cancelled)
    /\ UNCHANGED <<serializer, config, store, writers, callinfo, disc, built>>

----------------------------------------------------------------------------

Next ==
    \/ \E t \in Threads, s \in Inputs : ConfigureHomeserver(t, s)
    \/ \E t \in Threads, c \in DiscoveredClients : ServerNameOk(t, c)
    \/ \E t \in Threads, e \in ClientBuildErrors : ServerNameErr(t, e)
    \/ \E t \in Threads : UrlStrategy(t)
    \/ \E t \in Threads : UrlBuildOk(t)
    \/ \E t \in Threads : UrlBuildErr(t)
    \/ \E t \in Threads : ServerVersionsOk(t)
    \/ \E t \in Threads : ServerVersionsErr(t)
    \/ \E t \in Threads, f \in FlowLists : LoginTypesOk(t, f)
    \/ \E t \in Threads : LoginTypesErr(t)
    \/ \E t \in Threads : ProxyGate(t)
    \/ \E t \in Threads : WriteClient(t)
    \/ \E t \in Threads : WriteDetails(t)
    \/ \E t \in Threads : Cancel(t)

Spec == Init /\ [][Next]_vars

----------------------------------------------------------------------------
(* IteratorSerializeAsArray: serialize, and the serializer it writes to.     *)
(* The cell is not Sync, so the calls on one instance follow one another.    *)

MaxLen == 3
MaxSerializeCalls == 3
Elems == {"a", "b"}

\* The iterators that are wrapped: every sequence of at most MaxLen elements.
Iterators == UNION { [1..n -> Elems] : n \in 0..MaxLen }

SerializerInit == ServiceInit /\ \E items \in Iterators : SerializerNew(items)

\* serialize returns `r`; the iterator taken out of the cell is dropped.
SerializeReturns(r, out) ==
    /\ sresult' = r
    /\ written' = Append(written, [result |-> r, out |-> out])
    /\ iterator' = <<>>
    /\ spc' = "idle"

\* Faulty variant: the iterator is cloned out of the cell and left there.
Serialize_Peeks ==
    /\ spc = "idle"
    /\ nser < MaxSerializeCalls
    /\ nser' = nser + 1
    /\ seq' = <<>>
    /\ IF cell = None
       THEN /\ SerializeReturns("Panic", <<>>)
            /\ UNCHANGED cell
       ELSE /\ iterator' = cell.val
            /\ UNCHANGED cell
            /\ spc' = "serialize_seq"
            /\ sresult' = "none"
            /\ UNCHANGED written
    /\ UNCHANGED <<service, wrapped>>

\* Lines 51-56: serialize is called with a fresh serializer; the iterator is
\* taken out of the cell, and the call panics if the cell is empty.
Serialize ==
    /\ spc = "idle"
    /\ nser < MaxSerializeCalls
    /\ nser' = nser + 1
    /\ seq' = <<>>
    /\ IF cell = None
       THEN /\ SerializeReturns("Panic", <<>>)
            /\ UNCHANGED cell
       ELSE /\ iterator' = cell.val
            /\ cell' = None
            /\ spc' = "serialize_seq"
            /\ sresult' = "none"
            /\ UNCHANGED written
    /\ UNCHANGED <<service, wrapped>>

\* Line 58: serialize_seq opens the array.
SerializeSeqOk ==
    /\ spc = "serialize_seq"
    /\ seq' = <<"[">>
    /\ spc' = "element"
    /\ UNCHANGED <<service, cell, iterator, sresult, wrapped, written, nser>>

\* Line 58: serialize_seq fails and `?` returns its error.
SerializeSeqErr ==
    /\ spc = "serialize_seq"
    /\ SerializeReturns("Err", seq)
    /\ UNCHANGED <<service, cell, seq, wrapped, nser>>

\* Lines 59-61: the next element of the iterator is written, after a comma
\* unless it is the first.
SerializeElementOk ==
    /\ spc = "element"
    /\ iterator # <<>>
    /\ seq' = seq \o (IF Len(seq) > 1 THEN <<",">> ELSE <<>>) \o <<Head(iterator)>>
    /\ iterator' = Tail(iterator)
    /\ UNCHANGED <<service, cell, spc, sresult, wrapped, written, nser>>

\* Line 60: serialize_element fails and `?` returns its error.
SerializeElementErr ==
    /\ spc = "element"
    /\ iterator # <<>>
    /\ SerializeReturns("Err", seq)
    /\ UNCHANGED <<service, cell, seq, wrapped, nser>>

\* Line 62: the iterator is exhausted; seq.end() closes the array.
SeqEndOk ==
    /\ spc = "element"
    /\ iterator = <<>>
    /\ seq' = seq \o <<"]">>
    /\ SerializeReturns("Ok", seq \o <<"]">>)
    /\ UNCHANGED <<service, cell, wrapped, nser>>

\* Line 62: seq.end() fails.
SeqEndErr ==
    /\ spc = "element"
    /\ iterator = <<>>
    /\ SerializeReturns("Err", seq)
    /\ UNCHANGED <<service, cell, seq, wrapped, nser>>

SerializerNext ==
    \/ Serialize
    \/ SerializeSeqOk
    \/ SerializeSeqErr
    \/ SerializeElementOk
    \/ SerializeElementErr
    \/ SeqEndOk
    \/ SeqEndErr

SerializerSpec == SerializerInit /\ [][SerializerNext]_vars

----------------------------------------------------------------------------
(* Vocabulary of the properties. *)

Returned(t) == pc[t] = "done"

\* The step in which thread t's call returns.
Returns(t) == pc[t] # "done" /\ pc'[t] = "done"

ReturnedErr(t) == Returned(t) /\ result[t].tag = "Err"
ReturnedOk(t) == Returned(t) /\ result[t] = Ok

ParsesAsServerName(s) == sanitize_server_name(s).ok
ParsesAsUrl(s) == UrlParse(s).ok

\* Server-name discovery ran and failed in the thread's call.
DiscoveryFailed(t) == disc[t] \in ClientBuildErrors

\* The call got a client and its login types (it reached the proxy check).
Probed(t) == Returned(t) /\ ret_from[t] \in {"gate", "write_details"}

\* build_client returned no client in the thread's call.
NoClientBuilt(t) ==
    ReturnedErr(t) /\ ret_from[t] \in {"url", "url_build", "server_versions"}

\* The thread's call is the latest one, and it began when no other call was
\* running and a configuration was stored.
AfterConfiguration(t) ==
    /\ call_id[t] = ncalls
    /\ ~overlap
    /\ client # None
    /\ HomeserverDetails # None
    /\ client_by # call_id[t]
    /\ details_by # call_id[t]

----------------------------------------------------------------------------
(* C1: a configure_homeserver call that returns an error leaves the stored  *)
(* client and the stored details exactly as they were, whatever the error    *)
(* and whatever the store held; and as long as no call has returned Ok,      *)
(* homeserver_details() returns None.                                        *)

C1_FailedCallLeavesStore ==
    /\ [](~succeeded => HomeserverDetails = None)
    /\ [][\A t \in Threads :
            (Returns(t) /\ result'[t].tag = "Err") =>
                /\ client' = client
                /\ homeserver_details' = homeserver_details
                /\ client_by # call_id[t]
                /\ details_by # call_id[t]]_vars

\* A failed call that began after a configuration was stored has returned.
C1_Witness ==
    \E t \in Threads : ReturnedErr(t) /\ AfterConfiguration(t)

----------------------------------------------------------------------------
(* C2: in every reachable state the store holds either nothing, or a client  *)
(* and details written by the same call and naming the same homeserver URL.  *)

C2_ConsistentPair ==
    \/ client = None /\ homeserver_details = None
    \/ /\ client # None
       /\ homeserver_details # None
       /\ client_by = details_by
       /\ homeserver_details.val.url = client.val.homeserver

----------------------------------------------------------------------------
(* C3: when two calls for two different homeservers run concurrently and    *)
(* both return Ok, the stored client and the stored details come from the    *)
(* same one of the two calls.                                                *)

DifferentHomeservers ==
    \A t, u \in Threads :
        t # u => built[t].val.homeserver # built[u].val.homeserver

C3_ConcurrentCallsLeaveOnePair ==
    (overlap /\ (\A t \in Threads : ReturnedOk(t)) /\ DifferentHomeservers) =>
        /\ client_by = details_by
        /\ \E t \in Threads : client_by = call_id[t]
        /\ homeserver_details.val.url = client.val.homeserver

----------------------------------------------------------------------------
(* C4: homeserver_details() returns None or the details one call built in    *)
(* full: the stored details change only in the step in which a call that     *)
(* passed discovery, the login-types probe and the proxy check stores the    *)
(* details it built and returns Ok.                                          *)

C4_DetailsOnlyFromSuccessfulCall ==
    /\ [](HomeserverDetails # None =>
            /\ succeeded
            /\ \E f \in FlowLists, c \in DiscoveredClients \cup
                    { UrlClient(UrlParse(s).val) : s \in {i \in Inputs : ParsesAsUrl(i)} } :
                  HomeserverDetails = Some(DetailsFromClient(c, f)))
    /\ [][homeserver_details' # homeserver_details =>
            \E t \in Threads :
                /\ pc[t] = "write_details"
                /\ disc[t] = "ok" \/ ParsesAsUrl(arg[t])
                /\ built[t] # None
                /\ ~SlidingSyncMissing(custom_sliding_sync_proxy, built[t].val)
                /\ \E f \in FlowLists :
                      homeserver_details' = Some(DetailsFromClient(built[t].val, f))
                /\ Returns(t)
                /\ result'[t] = Ok]_vars

\* A reader sees the details of a call that returned Ok.
C4_Witness ==
    /\ HomeserverDetails # None
    /\ \E t \in Threads : ReturnedOk(t) /\ details_by = call_id[t]

----------------------------------------------------------------------------
(* C5: an input that parses neither as a server name nor as a URL makes      *)
(* configure_homeserver return InvalidServerName with the server-name parse  *)
(* error, and the call writes nothing to the store.                          *)

C5_UnparsableInputIsInvalidServerName ==
    \A t \in Threads :
        (Returned(t) /\ ~ParsesAsServerName(arg[t]) /\ ~ParsesAsUrl(arg[t])) =>
            /\ result[t] =
                 Failed(Err("InvalidServerName", sanitize_server_name(arg[t]).val))
            /\ ret_from[t] = "url"
            /\ client_by # call_id[t]
            /\ details_by # call_id[t]

C5_Witness ==
    \E t \in Threads :
        /\ Returned(t)
        /\ ~ParsesAsServerName(arg[t]) /\ ~ParsesAsUrl(arg[t])
        /\ result[t].err.kind = "InvalidServerName"
        /\ AfterConfiguration(t)

----------------------------------------------------------------------------
(* C6: InvalidServerName is returned only for an input that parses neither   *)
(* as a server name nor as a URL.                                            *)

C6_InvalidServerNameOnlyIfNeitherParses ==
    \A t \in Threads :
        (Returned(t) /\ result[t].err.kind = "InvalidServerName") =>
            ~ParsesAsServerName(arg[t]) /\ ~ParsesAsUrl(arg[t])


----------------------------------------------------------------------------
(* C7: when the input parses as a server name, server-name discovery fails   *)
(* and the URL strategy yields no client, the error returned is the one      *)
(* mapped from the discovery failure: not the fallback Generic error, not    *)
(* InvalidServerName, nothing derived from the URL strategy.                 *)

C7_ServerNameErrorWins ==
    \A t \in Threads :
        (NoClientBuilt(t) /\ ParsesAsServerName(arg[t]) /\ DiscoveryFailed(t)) =>
            /\ result[t].err = MapBuildError(disc[t])
            /\ result[t].err # UnknownError
            /\ result[t].err.kind # "InvalidServerName"
            /\ disc[t] = "AutoDiscovery(Deserialization)" =>
                   result[t].err.kind = "InvalidWellKnownFile"

\* A malformed well-known file, then a URL at which no homeserver answers.
C7_Witness ==
    \E t \in Threads :
        /\ NoClientBuilt(t)
        /\ disc[t] = "AutoDiscovery(Deserialization)"
        /\ ret_from[t] = "server_versions"
        /\ result[t].err.kind = "InvalidWellKnownFile"

----------------------------------------------------------------------------
(* C8: when the input parses as a server name, discovery fails, and the same *)
(* string is a URL at which a client is built and the server answers, the    *)
(* call returns Ok and the store holds the client built from that URL.       *)

\* The URL strategy yielded the client of the thread's call.
BuiltFromUrl(t) ==
    /\ Returned(t)
    /\ result[t].tag # "Cancelled"
    /\ ParsesAsServerName(arg[t])
    /\ DiscoveryFailed(t)
    /\ built[t] # None

\* A sliding sync proxy is known, from the override or from the client.
ProxyAvailable(t) ==
    custom_sliding_sync_proxy # None \/ built[t].val.sliding_sync_proxy # None

StoresUrlClient(t) ==
    /\ result[t] = Ok
    /\ built[t].val.homeserver = UrlParse(arg[t]).val
    /\ client_by = call_id[t] => client = built[t]

\* As claimed.
C8_UrlFallbackSucceeds ==
    \A t \in Threads : BuiltFromUrl(t) => StoresUrlClient(t)

\* As amended: provided the login types are fetched and a sliding sync proxy
\* is available, the call returns Ok having stored the client built from the
\* URL, which stays the stored client until another call writes one.
C8_UrlFallbackSucceedsIfProbedAndProxy ==
    \A t \in Threads :
        (BuiltFromUrl(t) /\ Probed(t) /\ ProxyAvailable(t)) => StoresUrlClient(t)

C8_Witness ==
    \E t \in Threads :
        /\ BuiltFromUrl(t) /\ Probed(t) /\ ProxyAvailable(t)
        /\ result[t] = Ok
        /\ client_by = call_id[t]
        /\ client.val.homeserver = UrlParse(arg[t]).val

----------------------------------------------------------------------------
(* C9: after discovery and the login-types probe have succeeded, the call    *)
(* returns SlidingSyncNotAvailable and writes nothing when neither the       *)
(* override nor the client names a sliding sync proxy; when either does, the *)
(* check does not fail the call.                                             *)

C9_ProxyGate ==
    \A t \in Threads :
        Probed(t) =>
            IF ProxyAvailable(t)
            THEN result[t] = Ok
            ELSE /\ result[t] = Failed(SlidingSyncNotAvailable)
                 /\ client_by # call_id[t]
                 /\ details_by # call_id[t]

\* The check failed a call made after a configuration was stored.
C9_Witness ==
    \E t \in Threads :
        /\ Probed(t)
        /\ ~ProxyAvailable(t)
        /\ result[t].err.kind = "SlidingSyncNotAvailable"
        /\ AfterConfiguration(t)

----------------------------------------------------------------------------
(* C10: when server-name discovery succeeds, the call returns Ok and the     *)
(* details it stores carry the homeserver URL of the discovered client, not  *)
(* the string that was supplied.                                             *)

Discovered(t) ==
    Returned(t) /\ result[t].tag # "Cancelled" /\ disc[t] = "ok"

StoresDiscoveredUrl(t) ==
    /\ result[t] = Ok
    /\ details_by = call_id[t] =>
           HomeserverDetails.val.url = built[t].val.homeserver

\* As claimed.
C10_DiscoverySucceeds ==
    \A t \in Threads : Discovered(t) => StoresDiscoveredUrl(t)

\* As amended: provided the login types are fetched and a sliding sync proxy
\* is available, the call returns Ok and the details it stores carry the
\* discovered client's homeserver URL.
C10_DiscoverySucceedsIfProbedAndProxy ==
    \A t \in Threads :
        (Discovered(t) /\ Probed(t) /\ ProxyAvailable(t)) => StoresDiscoveredUrl(t)

\* The stored URL is the discovered one although the input is itself a URL.
C10_Witness ==
    \E t \in Threads :
        /\ Discovered(t) /\ result[t] = Ok
        /\ details_by = call_id[t]
        /\ ParsesAsUrl(arg[t])
        /\ HomeserverDetails.val.url = built[t].val.homeserver
        /\ HomeserverDetails.val.url # UrlParse(arg[t]).val

----------------------------------------------------------------------------
(* C11: calls made one after another replace the stored pair wholesale:      *)
(* when the latest call, begun when no other call was running, returns Ok,   *)
(* the stored client is the client that call built and every field of the    *)
(* stored details (URL, OIDC flag, password flag) is the one that call       *)
(* produced; nothing of an earlier configuration remains.                    *)

\* The thread's call is the latest and began when no other call was running.
LatestSequential(t) == call_id[t] = ncalls /\ ~overlap

LatestSequentialOk(t) == ReturnedOk(t) /\ LatestSequential(t)

\* The details the thread's running call produces from its client and the
\* login flows it fetched.
ProducedDetails(t) ==
    [url |-> built[t].val.homeserver,
     supports_oidc_login |-> built[t].val.oidc,
     supports_password_login |->
        (\E i \in DOMAIN fetched[t] : fetched[t][i] = "Password")]

----------------------------------------------------------------------------
(* C12: supports_password_login of the details a call builds is true if and  *)
(* only if at least one login flow the homeserver returned is the Password   *)
(* flow; an empty list, or a list with no Password flow, gives false.        *)

\* The set of flows in the list the homeserver returned to the thread's call.
FetchedFlows(t) == { fetched[t][i] : i \in DOMAIN fetched[t] }

C12_PasswordFlagIffPasswordFlow ==
    \A t \in Threads :
        det[t] # None =>
            /\ det[t].val.supports_password_login <=> "Password" \in FetchedFlows(t)
            /\ fetched[t] = <<>> => ~det[t].val.supports_password_login
            /\ FetchedFlows(t) = {"Sso"} => ~det[t].val.supports_password_login

\* One call got a list whose second flow is Password and built details with
\* the flag set; another got a non-empty list without it and built details
\* with the flag clear.
C12_Witness ==
    \E t, u \in Threads :
        /\ det[t] # None /\ det[u] # None
        /\ fetched[t] = <<"Sso", "Password">>
        /\ det[t].val.supports_password_login
        /\ fetched[u] = <<"Sso">>
        /\ ~det[u].val.supports_password_login

----------------------------------------------------------------------------
(* C13: an IteratorSerializeAsArray is serialized at most once: the first    *)
(* serialize call takes the iterator out of the cell and writes its elements *)
(* in order as an array (an empty iterator gives the empty array), and every *)
(* later serialize call on the instance panics and writes nothing.           *)

RECURSIVE Joined(_)
Joined(items) ==
    IF Len(items) <= 1 THEN items
    ELSE <<Head(items), ",">> \o Joined(Tail(items))

\* The array of the elements, as the serializer writes it.
ArrayOf(items) == <<"[">> \o Joined(items) \o <<"]">>

\* The elements read back from what was written.
ElementsOf(out) == SelectSeq(out, LAMBDA x : x \in Elems)

\* From its first call on, the cell is empty; later calls panic and write
\* nothing.
LaterCallsPanic ==
    /\ nser > 0 => cell = None
    /\ \A i \in DOMAIN written :
          i > 1 => written[i] = [result |-> "Panic", out |-> <<>>]

\* As claimed.
C13_SerializedAtMostOnce ==
    /\ LaterCallsPanic
    /\ written # <<>> =>
          /\ written[1].result = "Ok"
          /\ written[1].out = ArrayOf(wrapped)

\* As amended: the first call writes the array unless the serializer reports
\* an error; then the call returns the error, having written a part of the
\* array at most, and the iterator is consumed all the same.
C13_SerializedAtMostOnceUnlessSerializerFails ==
    /\ LaterCallsPanic
    /\ written # <<>> =>
          /\ written[1].result \in {"Ok", "Err"}
          /\ written[1].result = "Ok" =>
                /\ written[1].out = ArrayOf(wrapped)
                /\ ElementsOf(written[1].out) = wrapped
                /\ wrapped = <<>> => written[1].out = <<"[", "]">>
          /\ written[1].result = "Err" =>
                /\ written[1].out # ArrayOf(wrapped)
                /\ \E n \in 0..Len(wrapped) :
                      ElementsOf(written[1].out) = SubSeq(wrapped, 1, n)

\* The first call wrote an array of several different elements, and a second
\* call panicked.
C13_Witness ==
    /\ Len(written) > 1
    /\ written[1].result = "Ok"
    /\ Len(wrapped) > 1
    /\ wrapped[1] # wrapped[Len(wrapped)]
    /\ written[1].out = ArrayOf(wrapped)
    /\ written[Len(written)].result = "Panic"

----------------------------------------------------------------------------
(* C14: within one call the two strategies follow one another: the URL       *)
(* strategy (URL parse, client build from the URL, server-versions probe) is *)
(* entered only when the call starts with an input that is no valid server   *)
(* name, or in the step in which server-name discovery fails; a call whose   *)
(* discovery succeeded never is in the URL strategy, and the client it goes  *)
(* on with is the discovered one.                                            *)

UrlPositions == {"url", "url_build", "server_versions"}

InUrlStrategy(t) == pc[t] \in UrlPositions

\* Discovery was skipped in the thread's call: the input is no server name.
DiscoverySkipped(t) == ~ParsesAsServerName(arg[t]) /\ disc[t] = "none"

C14_UrlStrategyOnlyAfterServerName ==
    /\ [](\A t \in Threads :
            /\ InUrlStrategy(t) => DiscoverySkipped(t) \/ DiscoveryFailed(t)
            /\ disc[t] = "ok" =>
                  /\ ~InUrlStrategy(t)
                  /\ built[t].val \in DiscoveredClients
                  /\ cl[t] # None => cl[t] = built[t])
    /\ [][\A t \in Threads :
            /\ (~InUrlStrategy(t) /\ pc'[t] \in UrlPositions) =>
                  \/ ~Running(t) /\ ~ParsesAsServerName(arg'[t])
                  \/ pc[t] = "server_name" /\ disc'[t] \in ClientBuildErrors
            /\ (pc[t] = "server_name" /\ disc'[t] = "ok") =>
                  /\ pc'[t] = "login_types"
                  /\ cl'[t].val \in DiscoveredClients]_vars

\* One call is probing the URL after its discovery failed, while another,
\* whose input is a URL too, goes on with the client it discovered.
C14_Witness ==
    \E t, u \in Threads :
        /\ pc[t] = "server_versions" /\ DiscoveryFailed(t)
        /\ pc[u] = "gate" /\ disc[u] = "ok" /\ ParsesAsUrl(arg[u])
        /\ cl[u] = built[u]

----------------------------------------------------------------------------
(* C15: when server-name discovery fails and the URL strategy yields no      *)
(* client, the error returned follows the kind of the discovery failure: a   *)
(* reqwest failure gives ServerNotFound, a deserialization failure of        *)
(* auto-discovery gives InvalidWellKnownFile with that cause, another        *)
(* auto-discovery failure gives HomeserverNotFound, any other build failure  *)
(* gives Generic; the result is one value of the taxonomy.                   *)

Taxonomy ==
    {"ClientMissing", "InvalidServerName", "ServerNotFound", "HomeserverNotFound",
     "InvalidWellKnownFile", "SlidingSyncNotAvailable", "InvalidBasePath",
     "Generic"}

C15_DiscoveryFailureDecidesError ==
    \A t \in Threads :
        (DiscoveryFailed(t) /\ NoClientBuilt(t)) =>
            /\ result[t].err.kind \in Taxonomy
            /\ disc[t] = "Http(Reqwest)" =>
                  result[t].err.kind = "ServerNotFound"
            /\ disc[t] = "AutoDiscovery(Deserialization)" =>
                  result[t].err = Err("InvalidWellKnownFile", "DeserializationError")
            /\ disc[t] = "AutoDiscovery(Other)" =>
                  result[t].err.kind = "HomeserverNotFound"
            /\ disc[t] = "Other" =>
                  result[t].err = Err("Generic", "Other")

\* One call whose URL probe failed returns InvalidWellKnownFile with its
\* cause; another, whose input is no URL, returns Generic.
C15_Witness ==
    \E t, u \in Threads :
        /\ DiscoveryFailed(t) /\ NoClientBuilt(t)
        /\ ret_from[t] = "server_versions"
        /\ result[t].err = Err("InvalidWellKnownFile", "DeserializationError")
        /\ DiscoveryFailed(u) /\ NoClientBuilt(u)
        /\ ~ParsesAsUrl(arg[u])
        /\ result[u].err.kind = "Generic"

----------------------------------------------------------------------------
(* C16: when a call has a client, from discovery or from the URL, and the    *)
(* fetch of the login flows fails, the call returns Generic and stores       *)
(* nothing: the stored client and details stay as they were.                 *)

\* The thread's call fails while it waits for the login flows.
LoginFetchFails(t) ==
    /\ pc[t] = "login_types"
    /\ Returns(t)
    /\ result'[t].tag = "Err"

C16_LoginFetchFailureIsGeneric ==
    /\ [](\A t \in Threads :
            (ReturnedErr(t) /\ ret_from[t] = "login_types") =>
                /\ built[t] # None
                /\ result[t].err.kind = "Generic"
                /\ client_by # call_id[t]
                /\ details_by # call_id[t])
    /\ [][\A t \in Threads :
            LoginFetchFails(t) =>
                /\ cl[t] # None
                /\ result'[t].err.kind = "Generic"
                /\ client' = client
                /\ homeserver_details' = homeserver_details]_vars

\* A call that built its client from the URL failed to fetch the login
\* flows, after a configuration was stored.
C16_Witness ==
    \E t \in Threads :
        /\ ReturnedErr(t) /\ ret_from[t] = "login_types"
        /\ disc[t] # "ok"
        /\ AfterConfiguration(t)

----------------------------------------------------------------------------
(* C17: a call dropped at one of its awaits (server-name discovery, URL      *)
(* client build, server-versions probe, login-flow fetch) has written        *)
(* neither the client nor the details, and dropping it changes nothing in    *)
(* the store; a call that has written the client is past its last await and  *)
(* goes on to write the details and return Ok.                               *)

WasCancelled(t) == Returned(t) /\ result[t] = Cancelled

\* The thread's call has written the client and still runs.
BetweenWrites(t) == Running(t) /\ client_by = call_id[t]

C17_CancelledCallWritesNothing ==
    /\ [](\A t \in Threads :
            /\ WasCancelled(t) =>
                  /\ ret_from[t] \in SuspensionPoints
                  /\ client_by # call_id[t]
                  /\ details_by # call_id[t]
            /\ pc[t] \in SuspensionPoints =>
                  client_by # call_id[t] /\ details_by # call_id[t]
            /\ BetweenWrites(t) => pc[t] = "write_details")
    /\ [][\A t \in Threads :
            /\ (Returns(t) /\ result'[t] = Cancelled) =>
                  client' = client /\ homeserver_details' = homeserver_details
            /\ (pc[t] = "write_client" /\ pc'[t] # pc[t]) =>
                  pc'[t] = "write_details"
            /\ (pc[t] = "write_details" /\ pc'[t] # pc[t]) =>
                  /\ result'[t] = Ok
                  /\ details_by' = call_id[t]]_vars

\* A call that began after a configuration was stored was dropped while it
\* waited for the login flows.
C17_Witness ==
    \E t \in Threads :
        /\ WasCancelled(t)
        /\ ret_from[t] = "login_types"
        /\ AfterConfiguration(t)

----------------------------------------------------------------------------
(* C18: whenever details are stored a client is stored too; once a field of  *)
(* the store holds a value it never is None again; and a call writes the     *)
(* details only after it has written the client.                             *)

C18_ClientBeforeDetails ==
    /\ [](HomeserverDetails # None => client # None)
    /\ [][/\ client # None => client' # None
          /\ homeserver_details # None => homeserver_details' # None
          /\ details_by' # details_by =>
                \E t \in Threads : pc[t] = "write_details" /\ Returns(t)
          /\ \A t \in Threads :
                (pc'[t] = "write_details" /\ pc[t] # "write_details") =>
                    /\ pc[t] = "write_client"
                    /\ client' = cl[t]
                    /\ client' # None
                    /\ client_by' = call_id[t]]_vars

\* A second call has replaced the stored client and is about to replace the
\* stored details.
C18_Witness ==
    \E t \in Threads :
        /\ pc[t] = "write_details"
        /\ client_by = call_id[t]
        /\ client # None
        /\ HomeserverDetails # None
        /\ details_by # call_id[t]

----------------------------------------------------------------------------
(* C19: no call returns the error build_client starts with,                  *)
(* Generic("Unknown error occurred."): when build_client fails, the error is *)
(* InvalidServerName, the input being no server name, or the error kept from *)
(* a server-name discovery that ran and failed.                              *)

DiscoveryErrorKinds ==
    {"ServerNotFound", "InvalidWellKnownFile", "HomeserverNotFound", "Generic"}

----------------------------------------------------------------------------
(* C20: the sliding sync proxy check comes after the login-flow fetch: a     *)
(* call whose client has no proxy, with no override set, and whose           *)
(* login-flow fetch fails returns Generic, not SlidingSyncNotAvailable; and  *)
(* SlidingSyncNotAvailable is returned only by a call that built a client    *)
(* and fetched its login flows.                                              *)

ReturnedNoProxy(t) == Returned(t) /\ result[t].err = SlidingSyncNotAvailable

C20_ProxyCheckAfterLoginFetch ==
    /\ [](\A t \in Threads :
            /\ (ReturnedErr(t) /\ ret_from[t] = "login_types") =>
                  /\ ~ReturnedNoProxy(t)
                  /\ result[t].err.kind = "Generic"
            /\ ReturnedNoProxy(t) =>
                  /\ ret_from[t] = "gate"
                  /\ built[t] # None
                  /\ disc[t] = "ok" \/ ParsesAsUrl(arg[t])
                  /\ SlidingSyncMissing(custom_sliding_sync_proxy, built[t].val))
    /\ [][\A t \in Threads :
            (Returns(t) /\ result'[t].err = SlidingSyncNotAvailable) =>
                /\ pc[t] = "gate"
                /\ cl[t] # None
                /\ det[t] = Some(DetailsFromClient(cl[t].val, fetched[t]))]_vars

\* With no override and a client without proxy, the login-flow fetch failed
\* and the call returned Generic.
C20_Witness ==
    \E t \in Threads :
        /\ ReturnedErr(t) /\ ret_from[t] = "login_types"
        /\ built[t] # None
        /\ SlidingSyncMissing(custom_sliding_sync_proxy, built[t].val)
        /\ result[t].err.kind = "Generic"

=============================================================================
